---------------------------- MODULE Spec2Model ----------------------------
(***************************************************************************)
(* Geodesic sphere tessellation and dual tile graph (class hexasphere).    *)
(*                                                                         *)
(* Numbers.  The seed coordinates are 0, +-1 and +-t with t the golden     *)
(* ratio, all divided by one common length.  A coordinate is therefore     *)
(* kept exactly as a pair of integers <<m, n>> standing for m + n*t, and a *)
(* point as the six integers <<x0, x1, y0, y1, z0, z1>>.  Interpolation    *)
(* weights are the fractions row/frequency and col/row of the source; they *)
(* are carried as numerators over a common positive denominator.  The      *)
(* projection to the unit sphere keeps the direction of a vector only; the *)
(* unit vector of a direction is represented by the primitive integer      *)
(* vector on the same ray.  Floating-point rounding is not modelled.       *)
(*                                                                         *)
(* Vertex and face ids are 0-based as in the source; TLA+ sequences are    *)
(* 1-based, so element i of an array s is s[i + 1].                        *)
(***************************************************************************)
EXTENDS Integers, Sequences, FiniteSets, TLC

\* Largest order the constructor is called with.
MaxOrder == 3

\* Radii the constructor is called with.
Radii == {0 - 1, 0, 1, 2}

VARIABLES
    order, frequency, uv, radius,      \* constructor arguments
    pc,                                \* position in the constructor
    error,                             \* exception thrown, "none" if none
    rawIndices, remap,                 \* locals of the subdivision
    positions, indices,                \* primal mesh
    dualVertices, vertexToFaces,       \* output of computeDual
    faceNeighbors,                     \* adjacency graph
    vi, visited, ring, current,        \* locals of the dual-face loop
    dualFaces,                         \* rings emitted so far
    uvs,                               \* UV output, present only if built
    heap,                              \* the arrays held by the planets' geospheres
    planets,                           \* the Planet objects of the scene
    deco,                              \* a PlanetWithDecorations and its model library
    tasks,                             \* the async calls started on it so far
    cluster,                           \* an instanced mesh being filled with clusters
    camera                             \* a CameraController

vars == <<order, frequency, uv, radius, pc, error, rawIndices, remap,
          positions, indices, dualVertices, vertexToFaces, faceNeighbors,
          vi, visited, ring, current, dualFaces, uvs, heap, planets,
          deco, tasks, cluster, camera>>

----------------------------------------------------------------------------
(* Arithmetic helpers *)

Abs(x) == IF x < 0 THEN 0 - x ELSE x

Min(a, b) == IF a <= b THEN a ELSE b

Max(a, b) == IF a >= b THEN a ELSE b

\* Loops are evaluated in order: the iterations lo..mid are done, and their
\* result is a value, before the iterations mid+1..hi start.
Done(v) == v = v

RECURSIVE Gcd(_, _)
Gcd(a, b) == IF b = 0 THEN a ELSE Gcd(b, a % b)

\* k * p, componentwise
ScaleVec(p, k) == [i \in 1..6 |-> k * p[i]]

AddVec(p, q) == [i \in 1..6 |-> p[i] + q[i]]

ZeroVec == [i \in 1..6 |-> 0]

\* (1 - num/den) * a + (num/den) * b, times den
Lerp(a, b, num, den) == AddVec(ScaleVec(a, den - num), ScaleVec(b, num))

VecGcd(p) ==
    Gcd(Gcd(Gcd(Abs(p[1]), Abs(p[2])), Gcd(Abs(p[3]), Abs(p[4]))),
        Gcd(Abs(p[5]), Abs(p[6])))

\* p / hypot(p): the unit vector of the direction of p
Normalize(p) == LET g == VecGcd(p) IN [i \in 1..6 |-> p[i] \div g]

----------------------------------------------------------------------------
(* Seed icosahedron *)

basePositions ==
    << <<0 - 1, 0, 0, 1, 0, 0>>, <<1, 0, 0, 1, 0, 0>>,
       <<0 - 1, 0, 0, 0 - 1, 0, 0>>, <<1, 0, 0, 0 - 1, 0, 0>>,
       <<0, 0, 0 - 1, 0, 0, 1>>, <<0, 0, 1, 0, 0, 1>>,
       <<0, 0, 0 - 1, 0, 0, 0 - 1>>, <<0, 0, 1, 0, 0, 0 - 1>>,
       <<0, 1, 0, 0, 0 - 1, 0>>, <<0, 1, 0, 0, 1, 0>>,
       <<0, 0 - 1, 0, 0, 0 - 1, 0>>, <<0, 0 - 1, 0, 0, 1, 0>> >>

baseIndices ==
    << 0,11,5,  0,5,1,  0,1,7,  0,7,10, 0,10,11,
       1,5,9,   5,11,4, 11,10,2, 10,7,6, 7,1,8,
       3,9,4,   3,4,2,  3,2,6,  3,6,8,  3,8,9,
       4,9,5,   2,4,11, 6,2,10, 8,6,7,  9,8,1 >>

----------------------------------------------------------------------------
(* subdivideFacesFrequencyDeduplicated *)

\* Number of grid points one seed face generates: rows 0..f, row r has r + 1.
GridSize(f) == ((f + 1) * (f + 2)) \div 2

\* The value of rawPositions.length when grid[row][col] of seed face `face`
\* is pushed: its raw index.
GridIndex(face, row, col, f) == face * GridSize(f) + (row * (row + 1)) \div 2 + col

\* Mutant: v = col / frequency instead of col / row.
GridPoint_ColOverFrequency(a, b, c, row, col, f) ==
    IF row = 0
    THEN Normalize(a)
    ELSE LET ab == Lerp(a, b, row, f)
             ac == Lerp(a, c, row, f)
         IN  Normalize(Lerp(ac, ab, col, f))

\* The point of grid[row][col] for corners a, b, c, projected to the sphere.
GridPoint(a, b, c, row, col, f) ==
    IF row = 0
    THEN Normalize(a)
    ELSE LET ab == Lerp(a, b, row, f)
             ac == Lerp(a, c, row, f)
         IN  Normalize(Lerp(ac, ab, col, row))

\* rawPositions after the loop over the seed faces.
RawPositions(verts, inds, f) ==
    [k \in 1..((Len(inds) \div 3) * GridSize(f)) |->
        LET face == (k - 1) \div GridSize(f)
            off  == (k - 1) % GridSize(f)
            row  == CHOOSE r \in 0..f :
                        /\ (r * (r + 1)) \div 2 <= off
                        /\ off < ((r + 1) * (r + 2)) \div 2
            col  == off - (row * (row + 1)) \div 2
        IN  GridPoint(verts[inds[3 * face + 1] + 1], verts[inds[3 * face + 2] + 1],
                      verts[inds[3 * face + 3] + 1], row, col, f)]

\* Mutant: the second triangle of a cell is (i0, i1, i3).
GridTriangle_WrongSecondTriangle(face, n, f) ==
    LET row == CHOOSE r \in 0..(f - 1) : r * r <= n /\ n < (r + 1) * (r + 1)
        rem == n - row * row
        col == rem \div 2
        i0  == GridIndex(face, row, col, f)
        i1  == GridIndex(face, row + 1, col, f)
        i2  == GridIndex(face, row + 1, col + 1, f)
        i3  == GridIndex(face, row, col + 1, f)
    IN  IF rem % 2 = 0 THEN <<i0, i1, i2>> ELSE <<i0, i1, i3>>

\* The n-th triangle (n = 0 .. f*f - 1) pushed for seed face `face`: row r
\* pushes (i0, i1, i2) for each col and (i0, i2, i3) after it when col < row.
GridTriangle(face, n, f) ==
    LET row == CHOOSE r \in 0..(f - 1) : r * r <= n /\ n < (r + 1) * (r + 1)
        rem == n - row * row
        col == rem \div 2
        i0  == GridIndex(face, row, col, f)
        i1  == GridIndex(face, row + 1, col, f)
        i2  == GridIndex(face, row + 1, col + 1, f)
        i3  == GridIndex(face, row, col + 1, f)
    IN  IF rem % 2 = 0 THEN <<i0, i1, i2>> ELSE <<i0, i2, i3>>

RawIndices(inds, f) ==
    [k \in 1..((Len(inds) \div 3) * f * f * 3) |->
        LET face == (k - 1) \div (3 * f * f)
            n    == ((k - 1) % (3 * f * f)) \div 3
        IN  GridTriangle(face, n, f)[((k - 1) % 3) + 1]]

\* const makeKey: the coordinates rounded to the merge tolerance.  The model's
\* coordinates are exact and far coarser than the tolerance, so rounding
\* leaves them as they are.
MakeKey(p) == <<p[1], p[2], p[3], p[4], p[5], p[6]>>

\* Mutant: the map is never consulted, every raw point gets a new id.
DedupStep_NoMerge(st, p) ==
    LET newIdx == Len(st.posArray)
    IN  [map      |-> (MakeKey(p) :> newIdx) @@ st.map,
         posArray |-> Append(st.posArray, p),
         remap    |-> Append(st.remap, newIdx)]

\* One iteration of the deduplication loop, on raw point p.
\* st = [map: key -> canonical id, posArray, remap]
DedupStep(st, p) ==
    LET key == MakeKey(p) IN
    IF key \in DOMAIN st.map
    THEN [st EXCEPT !.remap = Append(@, st.map[key])]
    ELSE LET newIdx == Len(st.posArray)
         IN  [map      |-> (key :> newIdx) @@ st.map,
              posArray |-> Append(st.posArray, p),
              remap    |-> Append(st.remap, newIdx)]

\* The deduplication loop over raw[lo..hi], in order.
RECURSIVE DedupLoop(_, _, _, _)
DedupLoop(st, raw, lo, hi) ==
    IF lo > hi THEN st
    ELSE IF lo = hi THEN DedupStep(st, raw[lo])
    ELSE LET mid  == (lo + hi) \div 2
             left == DedupLoop(st, raw, lo, mid)
         IN  IF Done(left) THEN DedupLoop(left, raw, mid + 1, hi) ELSE left

EmptyMap == [k \in {} |-> 0]

\* Result of the call: either it throws, or the deduplicated buffers.
subdivideFacesFrequencyDeduplicated(verts, inds, f) ==
    IF f < 1
    THEN [throws |-> TRUE]
    ELSE LET raw  == RawPositions(verts, inds, f)
             rawI == RawIndices(inds, f)
             st   == DedupLoop([map |-> EmptyMap, posArray |-> <<>>, remap |-> <<>>],
                               raw, 1, Len(raw))
         IN  [throws     |-> FALSE,
              rawIndices |-> rawI,
              remap      |-> st.remap,
              positions  |-> st.posArray,
              indices    |-> [k \in 1..Len(rawI) |-> st.remap[rawI[k] + 1]]]

----------------------------------------------------------------------------
(* computeDual *)

\* Centre of a face: the centroid of its corners, normalised, times the
\* radius.  The hypot of a zero centroid is 0 and the division yields NaN.
FaceCenter(a, b, c, r) ==
    [centroidOf |-> <<a, b, c>>, scaledBy |-> r,
     nan |-> (AddVec(AddVec(a, b), c) = ZeroVec)]

\* faceCenters, one per face
FaceCenters(pos, inds, r) ==
    [fi \in 1..(Len(inds) \div 3) |->
        FaceCenter(pos[inds[3 * fi - 2] + 1], pos[inds[3 * fi - 1] + 1],
                   pos[inds[3 * fi] + 1], r)]

\* The pushes vertexToFaces[a].push(fi), [b].push(fi), [c].push(fi) for the
\* entries lo..hi of the index buffer, in order.
RECURSIVE PushFaces(_, _, _, _)
PushFaces(vtf, inds, lo, hi) ==
    IF lo > hi THEN vtf
    ELSE IF lo = hi THEN [vtf EXCEPT ![inds[lo] + 1] = Append(@, (lo - 1) \div 3)]
    ELSE LET mid  == (lo + hi) \div 2
             left == PushFaces(vtf, inds, lo, mid)
         IN  IF Done(left) THEN PushFaces(left, inds, mid + 1, hi) ELSE left

computeDual(pos, inds, r) ==
    [faceCenters   |-> FaceCenters(pos, inds, r),
     vertexToFaces |-> PushFaces([v \in 1..Len(pos) |-> <<>>], inds, 1, Len(inds))]

----------------------------------------------------------------------------
(* buildDualFacesByAdjacency *)

\* Mutant: the third edge of a face is emitted as (b, c) again.
EdgeEntry_ThirdEdgeRepeated(inds, e) ==
    LET f == e \div 3
        a == inds[3 * f + 1]
        b == inds[3 * f + 2]
        c == inds[3 * f + 3]
        x == IF e % 3 = 0 THEN a ELSE b
        y == IF e % 3 = 0 THEN b ELSE c
    IN  <<Min(x, y), Max(x, y), f>>

\* Entry e (0-based) of edgeList: <<vMin, vMax, faceIndex>>.  Face f emits
\* the edges (a, b), (b, c), (c, a) as entries 3f, 3f + 1, 3f + 2.
EdgeEntry(inds, e) ==
    LET f == e \div 3
        a == inds[3 * f + 1]
        b == inds[3 * f + 2]
        c == inds[3 * f + 3]
        x == IF e % 3 = 0 THEN a ELSE IF e % 3 = 1 THEN b ELSE c
        y == IF e % 3 = 0 THEN b ELSE IF e % 3 = 1 THEN c ELSE a
    IN  <<Min(x, y), Max(x, y), f>>

EdgeList(inds) == [e \in 1..Len(inds) |-> EdgeEntry(inds, e - 1)]

\* Mutant: the comparator looks at vMin only.
EdgeLess_MinOnly(ei, ej) == ei[1] < ej[1]

\* Mutant: the comparator looks at vMax only.
EdgeLess_MaxOnly(ei, ej) == ei[2] < ej[2]

\* The comparator of the sort: i0 - j0 || i1 - j1 is negative.
EdgeLess(ei, ej) == ei[1] < ej[1] \/ (ei[1] = ej[1] /\ ei[2] < ej[2])

\* edgeList in the order of the sorted indicesArray.  Entries with equal
\* keys keep their order (the sort is stable).
SortedEdges(inds) == SortSeq(EdgeList(inds), EdgeLess)

\* The scan of the sorted entries lo-1/lo .. hi-1/hi: equal keys register
\* the two faces as neighbours of each other.
RECURSIVE ScanEdges(_, _, _, _)
ScanEdges(fn, sorted, lo, hi) ==
    IF lo > hi THEN fn
    ELSE IF lo = hi
    THEN LET i == sorted[lo - 1]
             j == sorted[lo]
         IN  IF i[1] = j[1] /\ i[2] = j[2]
             THEN [fn EXCEPT ![i[3] + 1] = Append(@, j[3]),
                             ![j[3] + 1] = Append(@, i[3])]
             ELSE fn
    ELSE LET mid  == (lo + hi) \div 2
             left == ScanEdges(fn, sorted, lo, mid)
         IN  IF Done(left) THEN ScanEdges(left, sorted, mid + 1, hi) ELSE left

FaceNeighbors(inds) ==
    LET sorted == SortedEdges(inds)
    IN  ScanEdges([f \in 1..(Len(inds) \div 3) |-> <<>>], sorted, 2, Len(sorted))

Includes(s, x) == \E i \in 1..Len(s) : s[i] = x

\* Mutant: the test !visited[f] is left out.
NextFace_NoVisitedTest(fn, vis, faces, cur) ==
    LET neighbors == fn[cur + 1]
        ok == {ni \in 1..Len(neighbors) : Includes(faces, neighbors[ni])}
    IN  IF ok = {} THEN 0 - 1
        ELSE neighbors[CHOOSE ni \in ok : \A nj \in ok : ni <= nj]

\* Mutant: the test faces.includes(f) is left out.
NextFace_NoIncidenceTest(fn, vis, faces, cur) ==
    LET neighbors == fn[cur + 1]
        ok == {ni \in 1..Len(neighbors) : vis[neighbors[ni] + 1] = 0}
    IN  IF ok = {} THEN 0 - 1
        ELSE neighbors[CHOOSE ni \in ok : \A nj \in ok : ni <= nj]

\* The inner for loop of a walk: the first neighbour of `cur` that is not
\* visited and is incident to the vertex; -1 if there is none.
NextFace(fn, vis, faces, cur) ==
    LET neighbors == fn[cur + 1]
        ok == {ni \in 1..Len(neighbors) :
                  vis[neighbors[ni] + 1] = 0 /\ Includes(faces, neighbors[ni])}
    IN  IF ok = {} THEN 0 - 1
        ELSE neighbors[CHOOSE ni \in ok : \A nj \in ok : ni <= nj]

----------------------------------------------------------------------------
(* buildUVMap *)

\* The UV pair of dual vertex i: toUV(toLatLon(dualVertices[i])).
UVOf(dv, i) == [uvOf |-> dv[i + 1]]

\* Mutant: the fan stops one triangle early.
FaceFan_OneTriangleShort(dv, face) ==
    [i \in 1..Max(Len(face) - 3, 0) |->
        <<UVOf(dv, face[1]), UVOf(dv, face[i + 1]), UVOf(dv, face[i + 2])>>]

\* The fan triangles of one face: (0, i, i + 1) for i = 1 .. n - 2.
FaceFan(dv, face) ==
    [i \in 1..Max(Len(face) - 2, 0) |->
        <<UVOf(dv, face[1]), UVOf(dv, face[i + 1]), UVOf(dv, face[i + 2])>>]

RECURSIVE buildUVMap(_, _)
buildUVMap(dfs, dv) ==
    IF dfs = <<>> THEN <<>>
    ELSE FaceFan(dv, Head(dfs)) \o buildUVMap(Tail(dfs), dv)

----------------------------------------------------------------------------
(* The constructor, step by step *)

NoUvs == [present |-> FALSE, tris |-> <<>>]

Init ==
    /\ order \in 0..MaxOrder
    /\ frequency \in BOOLEAN
    /\ uv \in BOOLEAN
    /\ radius \in Radii
    /\ pc = "constructor"
    /\ error = "none"
    /\ rawIndices = <<>>
    /\ remap = <<>>
    /\ positions = <<>>
    /\ indices = <<>>
    /\ dualVertices = <<>>
    /\ vertexToFaces = <<>>
    /\ faceNeighbors = <<>>
    /\ vi = 0
    /\ visited = <<>>
    /\ ring = <<>>
    /\ current = 0
    /\ dualFaces = <<>>
    /\ uvs = NoUvs
    /\ heap = <<>>
    /\ planets = <<>>
    /\ deco = <<>>
    /\ tasks = <<>>
    /\ cluster = <<>>
    /\ camera = <<>>

\* new Float32Array(this.basePositions.flat()), this.baseIndices
SeedMesh ==
    [throws |-> FALSE, rawIndices |-> <<>>, remap |-> <<>>,
     positions |-> [i \in 1..Len(basePositions) |-> Normalize(basePositions[i])],
     indices |-> baseIndices]

\* The mesh chosen by the two conditionals of the constructor.  The class
\* has no method subdivideFaces: calling it throws a TypeError.
PrimalMesh(ord, freq) ==
    IF ~freq
    THEN IF ord > 0 THEN [throws |-> TRUE] ELSE SeedMesh
    ELSE IF ord > 1
         THEN subdivideFacesFrequencyDeduplicated(basePositions, baseIndices, ord)
         ELSE SeedMesh

Construct ==
    /\ pc = "constructor"
    /\ LET m == PrimalMesh(order, frequency) IN
       IF m.throws
       THEN /\ pc' = "threw"
            /\ error' = IF frequency THEN "Frequency must be >= 1" ELSE "TypeError"
            /\ UNCHANGED <<rawIndices, remap, positions, indices>>
       ELSE /\ pc' = "scale"
            /\ rawIndices' = m.rawIndices
            /\ remap' = m.remap
            /\ positions' = m.positions
            /\ indices' = m.indices
            /\ UNCHANGED error
    /\ UNCHANGED <<deco, tasks, cluster, camera, heap, planets, order, frequency, uv, radius, dualVertices, vertexToFaces,
                   faceNeighbors, vi, visited, ring, current, dualFaces, uvs>>

\* Scale vertices to match desired radius
ScalePositions ==
    /\ pc = "scale"
    /\ positions' = [i \in 1..Len(positions) |-> ScaleVec(positions[i], radius)]
    /\ pc' = "computeDual"
    /\ UNCHANGED <<deco, tasks, cluster, camera, heap, planets, order, frequency, uv, radius, error, rawIndices, remap, indices,
                   dualVertices, vertexToFaces, faceNeighbors, vi, visited, ring,
                   current, dualFaces, uvs>>

ComputeDual ==
    /\ pc = "computeDual"
    /\ LET d == computeDual(positions, indices, radius) IN
       /\ dualVertices' = d.faceCenters
       /\ vertexToFaces' = d.vertexToFaces
    /\ pc' = "adjacency"
    /\ UNCHANGED <<deco, tasks, cluster, camera, heap, planets, order, frequency, uv, radius, error, rawIndices, remap, positions,
                   indices, faceNeighbors, vi, visited, ring, current, dualFaces, uvs>>

\* Steps 1 to 3 of buildDualFacesByAdjacency and the set-up of step 4.
BuildAdjacency ==
    /\ pc = "adjacency"
    /\ faceNeighbors' = FaceNeighbors(indices)
    /\ visited' = [f \in 1..(Len(indices) \div 3) |-> 0]
    /\ dualFaces' = <<>>
    /\ vi' = 0
    /\ pc' = "vertex"
    /\ UNCHANGED <<deco, tasks, cluster, camera, heap, planets, order, frequency, uv, radius, error, rawIndices, remap, positions,
                   indices, dualVertices, vertexToFaces, ring, current, uvs>>

\* Mutant: the visited flags of the vertex's faces are not cleared.
StartRing_VisitedNotCleared ==
    /\ pc = "vertex"
    /\ vi < Len(vertexToFaces)
    /\ LET faces == vertexToFaces[vi + 1] IN
       IF Len(faces) < 3
       THEN /\ vi' = vi + 1
            /\ UNCHANGED <<pc, visited, ring, current>>
       ELSE /\ visited' = [visited EXCEPT ![faces[1] + 1] = 1]
            /\ ring' = <<faces[1]>>
            /\ current' = faces[1]
            /\ pc' = "forward"
            /\ UNCHANGED vi
    /\ UNCHANGED <<deco, tasks, cluster, camera, heap, planets, order, frequency, uv, radius, error, rawIndices, remap,
                   positions, indices, dualVertices, vertexToFaces, faceNeighbors,
                   dualFaces, uvs>>

\* Head of the loop over the vertices: skip a vertex with fewer than three
\* faces, else clear its faces and start the ring at faces[0].
StartRing ==
    /\ pc = "vertex"
    /\ vi < Len(vertexToFaces)
    /\ LET faces == vertexToFaces[vi + 1] IN
       IF Len(faces) < 3
       THEN /\ vi' = vi + 1
            /\ UNCHANGED <<pc, visited, ring, current>>
       ELSE /\ visited' = [f \in 1..Len(visited) |->
                              IF f - 1 = faces[1] THEN 1
                              ELSE IF Includes(faces, f - 1) THEN 0 ELSE visited[f]]
            /\ ring' = <<faces[1]>>
            /\ current' = faces[1]
            /\ pc' = "forward"
            /\ UNCHANGED vi
    /\ UNCHANGED <<deco, tasks, cluster, camera, heap, planets, order, frequency, uv, radius, error, rawIndices, remap, positions,
                   indices, dualVertices, vertexToFaces, faceNeighbors, dualFaces, uvs>>

\* One iteration of the forward while loop.
WalkForward ==
    /\ pc = "forward"
    /\ LET faces == vertexToFaces[vi + 1]
           next  == NextFace(faceNeighbors, visited, faces, current) IN
       IF next = 0 - 1
       THEN /\ current' = faces[1]
            /\ pc' = "backward"
            /\ UNCHANGED <<ring, visited>>
       ELSE /\ ring' = Append(ring, next)
            /\ visited' = [visited EXCEPT ![next + 1] = 1]
            /\ current' = next
            /\ UNCHANGED pc
    /\ UNCHANGED <<deco, tasks, cluster, camera, heap, planets, order, frequency, uv, radius, error, rawIndices, remap, positions,
                   indices, dualVertices, vertexToFaces, faceNeighbors, vi, dualFaces,
                   uvs>>

\* One iteration of the backward while loop; on its break the ring is kept
\* if it has at least three faces and the loop moves to the next vertex.
WalkBackward ==
    /\ pc = "backward"
    /\ LET faces == vertexToFaces[vi + 1]
           next  == NextFace(faceNeighbors, visited, faces, current) IN
       IF next = 0 - 1
       THEN /\ dualFaces' = IF Len(ring) >= 3 THEN Append(dualFaces, ring) ELSE dualFaces
            /\ vi' = vi + 1
            /\ pc' = "vertex"
            /\ UNCHANGED <<ring, visited, current>>
       ELSE /\ ring' = <<next>> \o ring
            /\ visited' = [visited EXCEPT ![next + 1] = 1]
            /\ current' = next
            /\ UNCHANGED <<pc, vi, dualFaces>>
    /\ UNCHANGED <<deco, tasks, cluster, camera, heap, planets, order, frequency, uv, radius, error, rawIndices, remap, positions,
                   indices, dualVertices, vertexToFaces, faceNeighbors, uvs>>

\* End of the vertex loop: dualFaces is returned, the UV map is built if asked.
Finish ==
    /\ pc = "vertex"
    /\ vi = Len(vertexToFaces)
    /\ uvs' = IF uv THEN [present |-> TRUE, tris |-> buildUVMap(dualFaces, dualVertices)]
              ELSE uvs
    /\ pc' = "done"
    /\ UNCHANGED <<deco, tasks, cluster, camera, heap, planets, order, frequency, uv, radius, error, rawIndices, remap, positions,
                   indices, dualVertices, vertexToFaces, faceNeighbors, vi, visited,
                   ring, current, dualFaces>>

Next ==
    \/ Construct
    \/ ScalePositions
    \/ ComputeDual
    \/ BuildAdjacency
    \/ StartRing
    \/ WalkForward
    \/ WalkBackward
    \/ Finish

Spec == Init /\ [][Next]_vars

----------------------------------------------------------------------------
(* Direct calls of buildDualFacesByAdjacency(indices, vertexToFaces) on    *)
(* arbitrary small triangle lists, with vertexToFaces as computeDual       *)
(* builds it.                                                              *)

\* Largest number of triangles of a mesh passed directly.
MaxFaces == 3

\* Number of vertex ids of a mesh passed directly.
NumMeshVertices == 5

MeshTriangles ==
    {t \in (0..(NumMeshVertices - 1)) \X (0..(NumMeshVertices - 1)) \X (0..(NumMeshVertices - 1)) :
        t[1] < t[2] /\ t[2] < t[3]}

\* The flat index buffer of a sequence of triangles.
Flatten(tris) == [k \in 1..(3 * Len(tris)) |-> tris[((k - 1) \div 3) + 1][((k - 1) % 3) + 1]]

InitAssembler ==
    /\ order = 0
    /\ frequency = FALSE
    /\ uv = FALSE
    /\ radius = 1
    /\ pc = "adjacency"
    /\ error = "none"
    /\ rawIndices = <<>>
    /\ remap = <<>>
    /\ positions = <<>>
    /\ \E n \in 1..MaxFaces : \E tris \in [1..n -> MeshTriangles] :
          indices = Flatten(tris)
    /\ dualVertices = <<>>
    /\ vertexToFaces = PushFaces([v \in 1..NumMeshVertices |-> <<>>], indices, 1, Len(indices))
    /\ faceNeighbors = <<>>
    /\ vi = 0
    /\ visited = <<>>
    /\ ring = <<>>
    /\ current = 0
    /\ dualFaces = <<>>
    /\ uvs = NoUvs
    /\ heap = <<>>
    /\ planets = <<>>
    /\ deco = <<>>
    /\ tasks = <<>>
    /\ cluster = <<>>
    /\ camera = <<>>

NextAssembler ==
    \/ BuildAdjacency
    \/ StartRing
    \/ WalkForward
    \/ WalkBackward
    \/ Finish

SpecAssembler == InitAssembler /\ [][NextAssembler]_vars

----------------------------------------------------------------------------
(* Properties *)

NumFaces == Len(indices) \div 3

\* The three vertex ids of face fi.
FaceVertices(fi) == {indices[3 * fi + 1], indices[3 * fi + 2], indices[3 * fi + 3]}

\* The undirected edges of face fi, as keys <<smaller id, larger id>>.
FaceEdgeKeys(fi) ==
    {<<x, y>> \in FaceVertices(fi) \X FaceVertices(fi) : x < y}

\* The undirected edge keys of the index buffer.
EdgeKeys == UNION {FaceEdgeKeys(fi) : fi \in 0..(NumFaces - 1)}

\* The faces that have edge `key`.
FacesOfEdge(key) == {fi \in 0..(NumFaces - 1) : key \in FaceEdgeKeys(fi)}

RECURSIVE SumLen(_)
SumLen(rings) == IF rings = <<>> THEN 0 ELSE Len(Head(rings)) + SumLen(Tail(rings))

\* The constructor ran in frequency mode with a frequency of at least 1.
FrequencyRun == frequency /\ order >= 1

\* C1: in frequency mode with order = f >= 1 the primal mesh has
\* V = 10f^2 + 2 pairwise distinct vertices, F = 20f^2 triangles over these
\* vertices and E = 30f^2 undirected edges, so that V - E + F = 2.
C1_PrimalCounts ==
    (FrequencyRun /\ pc \in {"scale", "done"}) =>
        LET V == Len(positions)
            F == NumFaces
            E == Cardinality(EdgeKeys)
        IN  /\ V = 10 * order * order + 2
            /\ F = 20 * order * order
            /\ E = 30 * order * order
            /\ V - E + F = 2
            /\ Len(indices) = 3 * F
            /\ \A k \in 1..Len(indices) : indices[k] \in 0..(V - 1)
            /\ pc = "scale" => Cardinality({positions[i] : i \in 1..V}) = V

C1_Witness ==
    /\ pc = "done" /\ frequency /\ order = 3
    /\ Len(positions) = 92 /\ NumFaces = 180 /\ Cardinality(EdgeKeys) = 270

\* C2: every primal vertex produces exactly one dual face: while the vertex
\* loop runs, the vertices passed so far have each appended one ring, and
\* at the end the number of dual faces is the number of primal vertices.
C2_OneDualFacePerVertex ==
    /\ pc = "vertex" => Len(dualFaces) = vi
    /\ pc = "done" => Len(dualFaces) = Len(positions)

C2_Witness ==
    pc = "done" /\ frequency /\ order = 2 /\ Len(dualFaces) = 42 /\ Len(positions) = 42

\* Vertex v is one of the 12 vertices of the seed icosahedron: for order <= 1
\* every vertex is, else v is the canonical id of a corner of a seed grid.
IsSeedVertex(v) ==
    IF order > 1
    THEN \E face \in 0..((Len(baseIndices) \div 3) - 1) :
            \E rc \in {<<0, 0>>, <<order, 0>>, <<order, order>>} :
                remap[GridIndex(face, rc[1], rc[2], order) + 1] = v
    ELSE TRUE

\* C3: every dual face has length 5 or 6; exactly 12 have length 5, they are
\* the rings of the 12 seed vertices, and the other 10f^2 - 10 have length 6
\* (none for f = 1, 30 for f = 2).
C3_PentagonsAndHexagons ==
    (FrequencyRun /\ pc = "done") =>
        LET n == Len(dualFaces)
            pent == {k \in 1..n : Len(dualFaces[k]) = 5}
            hex  == {k \in 1..n : Len(dualFaces[k]) = 6}
        IN  /\ \A k \in 1..n : Len(dualFaces[k]) \in {5, 6}
            /\ Cardinality(pent) = 12
            /\ Cardinality(hex) = 10 * order * order - 10
            /\ \A k \in 1..n : (k \in pent) <=> IsSeedVertex(k - 1)
            /\ order = 1 => hex = {}
            /\ order = 2 => Cardinality(hex) = 30

C3_Witness ==
    /\ pc = "done" /\ frequency /\ order = 2
    /\ Cardinality({k \in 1..Len(dualFaces) : Len(dualFaces[k]) = 6}) = 30
    /\ Cardinality({k \in 1..Len(dualFaces) : Len(dualFaces[k]) = 5}) = 12

\* Number of occurrences of x in sequence s.
Occurrences(s, x) == Cardinality({i \in 1..Len(s) : s[i] = x})

\* C4: every primal face id occurs exactly once in the dual face of each of
\* its three vertices and in no other dual face, and the lengths of the dual
\* faces sum to 3F = 2E.
C4_FaceInThreeDualFaces ==
    (FrequencyRun /\ pc = "done") =>
        /\ \A fi \in 0..(NumFaces - 1) :
              /\ \A k \in 1..Len(dualFaces) :
                    Occurrences(dualFaces[k], fi) =
                        IF (k - 1) \in FaceVertices(fi) THEN 1 ELSE 0
              /\ Cardinality({k \in 1..Len(dualFaces) : Includes(dualFaces[k], fi)}) = 3
        /\ SumLen(dualFaces) = 3 * NumFaces
        /\ SumLen(dualFaces) = 2 * Cardinality(EdgeKeys)

C4_Witness ==
    /\ pc = "done" /\ frequency /\ order = 3
    /\ SumLen(dualFaces) = 540
    /\ Cardinality({k \in 1..Len(dualFaces) : Includes(dualFaces[k], 0)}) = 3

\* C5: every undirected edge key of the primal index buffer is emitted by
\* exactly two faces, and the adjacency builder gives every face exactly
\* three distinct neighbours, never the face itself, symmetrically.
C5_ClosedManifoldAdjacency ==
    (pc = "vertex" /\ vi = 0) =>
        /\ \A fi \in 0..(NumFaces - 1) : Cardinality(FaceEdgeKeys(fi)) = 3
        /\ \A key \in EdgeKeys :
              Cardinality(FacesOfEdge(key)) = 2
        /\ \A f \in 0..(NumFaces - 1) :
              LET nb == faceNeighbors[f + 1] IN
              /\ Len(nb) = 3
              /\ Cardinality({nb[i] : i \in 1..3}) = 3
              /\ ~Includes(nb, f)
              /\ \A i \in 1..3 : Includes(faceNeighbors[nb[i] + 1], f)

C5_Witness ==
    /\ pc = "vertex" /\ vi = 0 /\ frequency /\ order = 3
    /\ Len(faceNeighbors) = 180
    /\ Len(faceNeighbors[1]) = 3

\* Corner j (1, 2, 3 for A, B, C) of seed face `face`.
Corner(face, j) == baseIndices[3 * face + j]

\* The raw index of the point that seed face `face` generates at k/f of the
\* way from seed vertex P to seed vertex Q, both corners of the face: the
\* grid has A at row 0, the edge A-C at col 0, the edge A-B at col = row
\* and the edge from C to B along row f.
EdgePointIndex(face, P, Q, k, f) ==
    LET A == Corner(face, 1)
        B == Corner(face, 2)
        C == Corner(face, 3)
    IN  IF P = A /\ Q = B THEN GridIndex(face, k, k, f)
        ELSE IF P = B /\ Q = A THEN GridIndex(face, f - k, f - k, f)
        ELSE IF P = A /\ Q = C THEN GridIndex(face, k, 0, f)
        ELSE IF P = C /\ Q = A THEN GridIndex(face, f - k, 0, f)
        ELSE IF P = C /\ Q = B THEN GridIndex(face, f, k, f)
        ELSE GridIndex(face, f, f - k, f)

SeedFaceIds == 0..((Len(baseIndices) \div 3) - 1)

SeedCorners(face) == {Corner(face, 1), Corner(face, 2), Corner(face, 3)}

\* C6: for two seed faces that share an edge P-Q, the points the two faces
\* generate for the same location k/f on that edge, k = 0..f, have the same
\* canonical vertex id.
C6_SharedEdgePointsMerge ==
    (pc = "scale" /\ frequency /\ order > 1) =>
        \A f1 \in SeedFaceIds : \A f2 \in SeedFaceIds \ {f1} :
            \A P \in SeedCorners(f1) \cap SeedCorners(f2) :
                \A Q \in (SeedCorners(f1) \cap SeedCorners(f2)) \ {P} :
                    \A k \in 0..order :
                        remap[EdgePointIndex(f1, P, Q, k, order) + 1] =
                            remap[EdgePointIndex(f2, P, Q, k, order) + 1]

\* Seed faces 0 = (0, 11, 5) and 1 = (0, 5, 1) share the edge 0-5; its
\* midpoint at order 2 is a second raw point merged into the first.
C6_Witness ==
    /\ pc = "scale" /\ frequency /\ order = 2
    /\ EdgePointIndex(0, 0, 5, 1, 2) # EdgePointIndex(1, 0, 5, 1, 2)
    /\ remap[EdgePointIndex(0, 0, 5, 1, 2) + 1] = remap[EdgePointIndex(1, 0, 5, 1, 2) + 1]

\* C7: a frequency below 1 is rejected with an error and produces no mesh.
C7_FrequencyBelowOneRejected ==
    (frequency /\ order < 1) =>
        /\ pc \in {"constructor", "threw"}
        /\ positions = <<>> /\ indices = <<>> /\ dualFaces = <<>>

\* C8: a radius <= 0 is rejected before any subdivision, scaling, dual-vertex
\* or dual-face computation is performed.
C8_NonPositiveRadiusRejected ==
    (radius <= 0) =>
        /\ pc \in {"constructor", "threw"}
        /\ positions = <<>> /\ dualVertices = <<>> /\ dualFaces = <<>>

\* C9: when the ring built for a vertex (one with at least three incident
\* faces) has fewer than 3 faces, an error is reported; the ring is never
\* left out of the output without a diagnostic.  After the backward walk
\* of vertex vi - 1 has ended, `ring` is the ring built for that vertex.
C9_ShortRingReported ==
    (/\ pc = "vertex" /\ vi >= 1
     /\ Len(vertexToFaces[vi]) >= 3
     /\ Len(ring) < 3)
    => error # "none"

\* C10: an edge key shared by a number of faces other than two makes the
\* adjacency builder report an error instead of carrying on.
C10_NonManifoldEdgeReported ==
    (pc \in {"vertex", "forward", "backward", "done"}
        /\ \E key \in EdgeKeys : Cardinality(FacesOfEdge(key)) # 2)
    => error # "none"

\* ---- Orientation of the primal triangles ----
\* A number m + n*t of the ring Z[t], t the golden ratio, is the pair
\* <<m, n>>; coordinate i (1 = x, 2 = y, 3 = z) of a point is such a pair.
Coord(p, i) == <<p[2 * i - 1], p[2 * i]>>

GSub(a, b) == <<a[1] - b[1], a[2] - b[2]>>

GAdd(a, b) == <<a[1] + b[1], a[2] + b[2]>>

\* (m + n t)(c + d t) with t*t = t + 1.
GMul(a, b) == <<a[1] * b[1] + a[2] * b[2], a[1] * b[2] + a[2] * b[1] + a[2] * b[2]>>

\* Sign (-1, 0, 1) of m + n t = (p + q*sqrt(5)) / 2 with p = 2m + n, q = n.
GSign(g) ==
    LET p == 2 * g[1] + g[2]
        q == g[2]
    IN  IF p = 0 /\ q = 0 THEN 0
        ELSE IF p >= 0 /\ q >= 0 THEN 1
        ELSE IF p <= 0 /\ q <= 0 THEN 0 - 1
        ELSE IF p > 0 THEN (IF p * p > 5 * q * q THEN 1 ELSE 0 - 1)
        ELSE (IF 5 * q * q > p * p THEN 1 ELSE 0 - 1)

\* The determinant of the points a, b, c: positive exactly when the triangle
\* a -> b -> c is seen counter-clockwise from outside the sphere.
Det3(a, b, c) ==
    LET m(u, v, i, j) == GSub(GMul(Coord(u, i), Coord(v, j)), GMul(Coord(u, j), Coord(v, i)))
    IN  GAdd(GSub(GMul(Coord(a, 1), m(b, c, 2, 3)),
                  GMul(Coord(a, 2), m(b, c, 1, 3))),
             GMul(Coord(a, 3), m(b, c, 1, 2)))

\* Face fi of the index buffer is wound outward.
WoundOutward(fi) ==
    GSign(Det3(positions[indices[3 * fi + 1] + 1],
               positions[indices[3 * fi + 2] + 1],
               positions[indices[3 * fi + 3] + 1])) = 1

\* The directed edges face fi traverses.
FaceDirectedEdges(fi) ==
    {<<indices[3 * fi + 1], indices[3 * fi + 2]>>,
     <<indices[3 * fi + 2], indices[3 * fi + 3]>>,
     <<indices[3 * fi + 3], indices[3 * fi + 1]>>}

\* C11: for every frequency f >= 1 all primal triangles are wound outward
\* (the same sense as the seed face A -> B -> C, for f = 1 and for f >= 2
\* alike), and every shared edge is traversed in opposite directions by its
\* two faces.
C11_PrimalWoundOutward ==
    (FrequencyRun /\ pc = "scale") =>
        /\ \A fi \in 0..(NumFaces - 1) : WoundOutward(fi)
        /\ \A fi \in 0..(NumFaces - 1) : \A de \in FaceDirectedEdges(fi) :
              \E gi \in 0..(NumFaces - 1) : <<de[2], de[1]>> \in FaceDirectedEdges(gi)

\* What the code does instead: the seed faces (order 1) are all wound
\* outward, the grid triangles (order > 1) are all wound inward.
SeedFacesWoundOutward ==
    (FrequencyRun /\ pc = "scale" /\ order = 1) =>
        \A fi \in 0..(NumFaces - 1) : WoundOutward(fi)

GridFacesWoundInward ==
    (FrequencyRun /\ pc = "scale" /\ order > 1) =>
        \A fi \in 0..(NumFaces - 1) : ~WoundOutward(fi)


\* ---- Orientation of the dual rings ----
\* Face b follows face a immediately in the cyclic sequence `r`.
Follows(r, a, b) ==
    \E i \in 1..Len(r) : r[i] = a /\ r[(i % Len(r)) + 1] = b

\* C12: the dual tiles are consistently wound: for the two rings of the
\* endpoints of a primal edge shared by the faces f and g, f and g are
\* cyclically consecutive in both rings, but in opposite order.
C12_DualRingsConsistentlyWound ==
    (FrequencyRun /\ pc = "done" /\ Len(dualFaces) = Len(vertexToFaces)) =>
        \A key \in EdgeKeys :
            \A f \in FacesOfEdge(key) : \A g \in FacesOfEdge(key) \ {f} :
                LET ru == dualFaces[key[1] + 1]
                    rv == dualFaces[key[2] + 1]
                IN  /\ Follows(ru, f, g) \/ Follows(ru, g, f)
                    /\ Follows(rv, f, g) \/ Follows(rv, g, f)
                    /\ Follows(ru, f, g) <=> Follows(rv, g, f)

\* What does hold: the two faces of an edge are neighbours in both rings.
EdgeFacesConsecutiveInRings ==
    (FrequencyRun /\ pc = "done" /\ Len(dualFaces) = Len(vertexToFaces)) =>
        \A key \in EdgeKeys :
            \A f \in FacesOfEdge(key) : \A g \in FacesOfEdge(key) \ {f} :
                LET ru == dualFaces[key[1] + 1]
                    rv == dualFaces[key[2] + 1]
                IN  /\ Follows(ru, f, g) \/ Follows(ru, g, f)
                    /\ Follows(rv, f, g) \/ Follows(rv, g, f)


\* ---- A second run of the pipeline ----
\* The orders in which a sort may leave entries whose keys compare equal:
\* entries of equal keys are ranked by TieRank(t, face), t = 0 being the
\* order of the stable sort (the entries of face f are 3f, 3f + 1, 3f + 2).
TieBreaks == 0..3

TieRank(t, f) ==
    IF t = 0 THEN f
    ELSE IF t = 1 THEN 0 - f
    ELSE IF t = 2 THEN (f % 2) * 100000 + f
    ELSE (f % 2) * 100000 - f

\* The sorted edge list when equal keys come out in the order of tie-break t.
SortedEdgesTie(inds, t) ==
    SortSeq(EdgeList(inds),
            LAMBDA ei, ej : \/ EdgeLess(ei, ej)
                            \/ /\ ~EdgeLess(ej, ei)
                               /\ TieRank(t, ei[3]) < TieRank(t, ej[3]))

FaceNeighborsTie(inds, t) ==
    LET sorted == SortedEdgesTie(inds, t)
    IN  ScanEdges([f \in 1..(Len(inds) \div 3) |-> <<>>], sorted, 2, Len(sorted))

\* One walk of a ring run to its break: the ring and the visited flags.
RECURSIVE WalkRing(_, _, _, _, _, _)
WalkRing(fn, vis, faces, cur, rg, forward) ==
    LET next == NextFace(fn, vis, faces, cur)
    IN  IF next = 0 - 1 THEN [ring |-> rg, visited |-> vis]
        ELSE WalkRing(fn, [vis EXCEPT ![next + 1] = 1], faces, next,
                      IF forward THEN Append(rg, next) ELSE <<next>> \o rg, forward)

\* The ring of one vertex: forward from faces[0], then backward from it.
RingOfVertex(fn, vis, faces) ==
    LET cleared == [f \in 1..Len(vis) |->
                       IF f - 1 = faces[1] THEN 1
                       ELSE IF Includes(faces, f - 1) THEN 0 ELSE vis[f]]
        fwd == WalkRing(fn, cleared, faces, faces[1], <<faces[1]>>, TRUE)
    IN  WalkRing(fn, fwd.visited, faces, faces[1], fwd.ring, FALSE)

\* The loop over the vertices v .. Len(vtf) - 1 run in one go.
RECURSIVE DualFacesFrom(_, _, _, _, _)
DualFacesFrom(fn, vtf, v, vis, acc) ==
    IF v >= Len(vtf) THEN acc
    ELSE IF Len(vtf[v + 1]) < 3 THEN DualFacesFrom(fn, vtf, v + 1, vis, acc)
    ELSE LET r == RingOfVertex(fn, vis, vtf[v + 1])
             out == IF Len(r.ring) >= 3 THEN Append(acc, r.ring) ELSE acc
         IN  IF Done(r) /\ Done(out)
             THEN DualFacesFrom(fn, vtf, v + 1, r.visited, out)
             ELSE acc

\* The outputs of a whole run of the constructor on the given arguments,
\* with the edge sort breaking ties as t.
SecondRun(ord, freq, wantUv, r, t) ==
    LET m   == PrimalMesh(ord, freq)
        pos == [i \in 1..Len(m.positions) |-> ScaleVec(m.positions[i], r)]
        d   == computeDual(pos, m.indices, r)
        fn  == FaceNeighborsTie(m.indices, t)
        dfs == DualFacesFrom(fn, d.vertexToFaces, 0,
                             [f \in 1..(Len(m.indices) \div 3) |-> 0], <<>>)
    IN  [positions |-> pos, indices |-> m.indices, dualVertices |-> d.faceCenters,
         dualFaces |-> dfs,
         uvs |-> IF wantUv THEN [present |-> TRUE, tris |-> buildUVMap(dfs, d.faceCenters)]
                 ELSE NoUvs]

\* C13: a second run of the pipeline on the same order, frequency flag, uv
\* flag and radius gives the same positions, indices, dualVertices, dualFaces
\* and uvs, element by element, whatever order the edge sort leaves equal
\* keys in.
C13_SecondRunIdentical ==
    (pc = "done") =>
        \A t \in TieBreaks :
            SecondRun(order, frequency, uv, radius, t) =
                [positions |-> positions, indices |-> indices,
                 dualVertices |-> dualVertices, dualFaces |-> dualFaces, uvs |-> uvs]

C13_Witness ==
    /\ pc = "done" /\ frequency /\ order = 2 /\ uv
    /\ Len(dualFaces) = 42
    /\ SortedEdgesTie(indices, 1) # SortedEdges(indices)
    /\ FaceNeighborsTie(indices, 1) = faceNeighbors


----------------------------------------------------------------------------
(* class Planet: three geospheres, one LOD group each, one group shown.    *)
(* Arrays are objects: `heap` holds their contents, an instance holds the  *)
(* addresses (1-based positions in heap) of the arrays it refers to.       *)

\* The constructor arguments of the planets: detail {low, mid, high} as the
\* triple of frequencies, and the radius.
DetailChoices == {<<1, 1, 1>>, <<1, 1, 2>>, <<1, 2, 2>>, <<2, 2, 2>>}

PlanetRadii == {1, 2}

\* The planets of the scene: a planet and one moon added to it.
PlanetIds == {1, 2}

LODNames == <<"low", "mid", "high">>

\* lodDistances?.low ?? 20 and lodDistances?.mid ?? 10
LodDistanceLow == 20

LodDistanceMid == 10

\* Distances from the camera to a planet.
Distances == {5, 10, 15, 20, 30, 40}

\* Stage(s) with s computed first: the statements of a method run in order.
Then(s, Stage(_)) == CHOOSE out \in {Stage(v) : v \in {s}} : TRUE

\* The class fields basePositions and baseIndices: fresh arrays of the new
\* instance.
AllocClassFields(h, ord, r) ==
    [heap |-> h \o <<basePositions, baseIndices>>,
     inst |-> [order |-> ord, radius |-> r,
               basePositions |-> Len(h) + 1, baseIndices |-> Len(h) + 2]]

\* [this.positions, this.indices] = order > 1 ? subdivide... :
\* [new Float32Array(this.basePositions.flat()), this.baseIndices]
AllocPrimalMesh(s) ==
    LET bp == s.heap[s.inst.basePositions]
        bi == s.heap[s.inst.baseIndices]
        n  == Len(s.heap)
    IN  IF s.inst.order > 1
        THEN LET m == subdivideFacesFrequencyDeduplicated(bp, bi, s.inst.order)
             IN  [heap |-> s.heap \o <<m.positions, m.indices>>,
                  inst |-> [k \in (DOMAIN s.inst) \cup {"positions", "indices"} |->
                               IF k = "positions" THEN n + 1
                               ELSE IF k = "indices" THEN n + 2 ELSE s.inst[k]]]
        ELSE [heap |-> Append(s.heap, [i \in 1..Len(bp) |-> Normalize(bp[i])]),
              inst |-> [k \in (DOMAIN s.inst) \cup {"positions", "indices"} |->
                           IF k = "positions" THEN n + 1
                           ELSE IF k = "indices" THEN s.inst.baseIndices
                           ELSE s.inst[k]]]

\* this.positions[i] *= this.radius, in place.
ScaleInPlace(s) ==
    [s EXCEPT !.heap[s.inst.positions] =
        [i \in 1..Len(@) |-> ScaleVec(@[i], s.inst.radius)]]

\* [this.dualVertices, this.vertexToFaces] = this.computeDual(...)
AllocDual(s) ==
    LET n == Len(s.heap)
    IN  [heap |-> s.heap \o
                  Then(computeDual(s.heap[s.inst.positions], s.heap[s.inst.indices],
                                   s.inst.radius),
                       LAMBDA d : <<d.faceCenters, d.vertexToFaces>>),
         inst |-> [k \in (DOMAIN s.inst) \cup {"dualVertices", "vertexToFaces"} |->
                      IF k = "dualVertices" THEN n + 1
                      ELSE IF k = "vertexToFaces" THEN n + 2 ELSE s.inst[k]]]

\* this.dualFaces = this.buildDualFacesByAdjacency(this.indices, this.vertexToFaces)
AllocDualFaces(s) ==
    LET inds == s.heap[s.inst.indices]
    IN  [heap |-> Append(s.heap,
                         DualFacesFrom(FaceNeighbors(inds), s.heap[s.inst.vertexToFaces],
                                       0, [f \in 1..(Len(inds) \div 3) |-> 0], <<>>)),
         inst |-> [k \in (DOMAIN s.inst) \cup {"dualFaces"} |->
                      IF k = "dualFaces" THEN Len(s.heap) + 1 ELSE s.inst[k]]]

\* new hexasphere(ord, true, false, r) run on the heap h: the new heap and
\* the instance, a record of the addresses of its arrays.  indices is the
\* instance's own baseIndices array when ord <= 1.
NewHexasphere(h, ord, r) ==
    Then(Then(Then(Then(AllocClassFields(h, ord, r), AllocPrimalMesh),
                   ScaleInPlace), AllocDual), AllocDualFaces)

\* The face indices 0 .. n - 1 of the dual faces with `sides` sides, in order.
TilesWithSides(dfs, sides) ==
    SelectSeq([i \in 1..Len(dfs) |-> i - 1], LAMBDA i : Len(dfs[i + 1]) = sides)

\* Mutant: building a LOD group empties the dualFaces array it has read.
BuildLODGroup_ConsumesFaces(h, inst) ==
    LET dfs == h[inst.dualFaces]
        keys == {Len(dfs[i]) : i \in 1..Len(dfs)}
    IN  [heap |-> [h EXCEPT ![inst.dualFaces] = <<>>],
         group |-> [visible |-> TRUE,
                    meshes |-> [sides \in keys |-> TilesWithSides(dfs, sides)]]]

\* buildLODGroup(geosphere): the tiles grouped by number of sides, one
\* instanced mesh per group; the geosphere's arrays are read only.  A new
\* THREE.Group is visible.
BuildLODGroup(h, inst) ==
    LET dfs == h[inst.dualFaces]
        keys == {Len(dfs[i]) : i \in 1..Len(dfs)}
    IN  [heap |-> h,
         group |-> [visible |-> TRUE,
                    meshes |-> [sides \in keys |-> TilesWithSides(dfs, sides)]]]

\* Mutant: the previous group is not hidden.
SetActiveLOD_PreviousLeftVisible(p, lodName) ==
    IF p.currentLOD = lodName THEN p
    ELSE [p EXCEPT !.lodGroups[lodName].visible = TRUE, !.currentLOD = lodName]

\* setActiveLOD(lodName) on planet record p.
SetActiveLOD(p, lodName) ==
    IF p.currentLOD = lodName THEN p
    ELSE LET hidden == IF p.currentLOD # "null"
                       THEN [p EXCEPT !.lodGroups[p.currentLOD].visible = FALSE]
                       ELSE p
         IN  [hidden EXCEPT !.lodGroups[lodName].visible = TRUE,
                            !.currentLOD = lodName]

\* The LOD chosen by updateLODdistanceToCamera for distance dist.
LODForDistance(p, dist) ==
    IF dist >= LodDistanceLow * p.radius THEN "low"
    ELSE IF dist >= LodDistanceMid * p.radius THEN "mid"
    ELSE "high"


\* A Planet object at the start of its constructor.
NewPlanet(detail, r) ==
    [radius |-> r, detail |-> detail, geospheres |-> <<>>, lodGroups |-> <<>>,
     currentLOD |-> "null", pc |-> "geospheres"]

\* No stand-alone hexasphere constructor call is in progress.
hexVars == <<order, frequency, uv, radius, pc, error, rawIndices, remap,
             positions, indices, dualVertices, vertexToFaces, faceNeighbors,
             vi, visited, ring, current, dualFaces, uvs>>

InitPlanet ==
    /\ order = 0
    /\ frequency = TRUE
    /\ uv = FALSE
    /\ radius = 1
    /\ pc = "idle"
    /\ error = "none"
    /\ rawIndices = <<>>
    /\ remap = <<>>
    /\ positions = <<>>
    /\ indices = <<>>
    /\ dualVertices = <<>>
    /\ vertexToFaces = <<>>
    /\ faceNeighbors = <<>>
    /\ vi = 0
    /\ visited = <<>>
    /\ ring = <<>>
    /\ current = 0
    /\ dualFaces = <<>>
    /\ uvs = NoUvs
    /\ heap = <<>>
    /\ \E detail \in DetailChoices : \E r \in PlanetRadii :
          planets = <<NewPlanet(detail, r)>>
    /\ deco = <<>>
    /\ tasks = <<>>
    /\ cluster = <<>>
    /\ camera = <<>>

\* The planet whose constructor is running, if any, is the last one.
AllReady == \A p \in 1..Len(planets) : planets[p].pc = "ready"

\* this.geospheres = { low: new hexasphere(detail.low, true, false, radius), ... }
ConstructGeosphere ==
    LET p == Len(planets)
        k == Len(planets[p].geospheres) + 1
    IN  /\ planets[p].pc = "geospheres"
        /\ \E made \in {NewHexasphere(heap, planets[p].detail[k], planets[p].radius)} :
              /\ heap' = made.heap
              /\ planets' = [planets EXCEPT ![p].geospheres = Append(@, made.inst),
                                            ![p].pc = IF k = 3 THEN "lodGroups" ELSE @]
        /\ UNCHANGED <<hexVars, deco, tasks, cluster, camera>>

\* this.lodGroups.low = this.buildLODGroup(this.geospheres.low); ...
BuildLODGroups ==
    LET p == Len(planets)
        old == planets[p].lodGroups
        k == Cardinality(DOMAIN old) + 1
    IN  /\ planets[p].pc = "lodGroups"
        /\ \E built \in {BuildLODGroup(heap, planets[p].geospheres[k])} :
              /\ heap' = built.heap
              /\ planets' = [planets EXCEPT
                    ![p].lodGroups = [n \in (DOMAIN old) \cup {LODNames[k]} |->
                                         IF n = LODNames[k] THEN built.group ELSE old[n]],
                    ![p].pc = IF k = 3 THEN "hide" ELSE @]
        /\ UNCHANGED <<hexVars, deco, tasks, cluster, camera>>

\* Object.values(this.lodGroups).forEach(g => { g.visible = false; ... })
HideLODGroups ==
    LET p == Len(planets) IN
    /\ planets[p].pc = "hide"
    /\ planets' = [planets EXCEPT
          ![p].lodGroups = [n \in DOMAIN @ |-> [@[n] EXCEPT !.visible = FALSE]],
          ![p].pc = "activate"]
    /\ UNCHANGED <<heap, hexVars, deco, tasks, cluster, camera>>

\* this.setActiveLOD("low") at the end of the constructor.
ActivateInitialLOD ==
    LET p == Len(planets) IN
    /\ planets[p].pc = "activate"
    /\ planets' = [planets EXCEPT ![p] = [SetActiveLOD(@, "low") EXCEPT !.pc = "ready"]]
    /\ UNCHANGED <<heap, hexVars, deco, tasks, cluster, camera>>

UpdateLODdistanceToCamera ==
    /\ AllReady
    /\ \E p \in 1..Len(planets) : \E dist \in Distances :
          planets' = [planets EXCEPT ![p] = SetActiveLOD(@, LODForDistance(@, dist))]
    /\ UNCHANGED <<heap, hexVars, deco, tasks, cluster, camera>>

\* updateLODscreenSize with a tile of the given size in pixels on screen.
UpdateLODscreenSize ==
    /\ AllReady
    /\ \E p \in 1..Len(planets) : \E screenTileSize \in {50, 150, 250} :
          planets' = [planets EXCEPT ![p] =
              SetActiveLOD(@, IF screenTileSize < 100 THEN "low"
                              ELSE IF screenTileSize < 200 THEN "mid" ELSE "high")]
    /\ UNCHANGED <<heap, hexVars, deco, tasks, cluster, camera>>

\* addMoon(moonConfig): new Planet({...moonConfig, parentPlanet: this})
AddMoon ==
    /\ AllReady
    /\ Len(planets) < Cardinality(PlanetIds)
    /\ \E detail \in DetailChoices : \E r \in PlanetRadii :
          planets' = Append(planets, NewPlanet(detail, r))
    /\ UNCHANGED <<heap, hexVars, deco, tasks, cluster, camera>>

NextPlanet ==
    \/ ConstructGeosphere
    \/ BuildLODGroups
    \/ HideLODGroups
    \/ ActivateInitialLOD
    \/ UpdateLODdistanceToCamera
    \/ UpdateLODscreenSize
    \/ AddMoon

SpecPlanet == InitPlanet /\ [][NextPlanet]_vars

\* ---- Independence of the geosphere instances ----
\* What an instance shows to its consumers.
Contents(h, inst) ==
    [positions |-> h[inst.positions], indices |-> h[inst.indices],
     dualVertices |-> h[inst.dualVertices], dualFaces |-> h[inst.dualFaces]]

\* C14: constructing another instance (same or different order and radius,
\* order 1 with indices being the seed index buffer included) and building a
\* LOD group from an instance leave the positions, indices, dualVertices
\* and dualFaces of every existing instance as they were.
C14_InstancesIndependent ==
    [][\A p \in 1..Len(planets) : \A k \in 1..Len(planets[p].geospheres) :
          /\ planets'[p].geospheres[k] = planets[p].geospheres[k]
          /\ Contents(heap', planets[p].geospheres[k]) =
                 Contents(heap, planets[p].geospheres[k])]_vars

\* A moon of another radius has been built completely next to a planet
\* whose low geosphere (order 1) uses its seed index buffer as indices.
C14_Witness ==
    /\ Len(planets) = 2 /\ planets[2].pc = "ready"
    /\ planets[1].radius # planets[2].radius
    /\ planets[1].geospheres[1].order = 1
    /\ planets[1].geospheres[1].indices = planets[1].geospheres[1].baseIndices
    /\ Len(heap[planets[1].geospheres[1].dualFaces]) = 12
    /\ heap[planets[1].geospheres[1].positions] # heap[planets[2].geospheres[1].positions]

\* ---- Level of detail ----
VisibleLODs(p) == {n \in DOMAIN p.lodGroups : p.lodGroups[n].visible}

\* C20: once the constructor of a planet has run, and after any calls of
\* setActiveLOD, exactly one of its three LOD groups is visible and it is
\* lodGroups[currentLOD]; a call naming the active LOD changes nothing.
C20_OneLODVisible ==
    \A p \in 1..Len(planets) :
        planets[p].pc = "ready" =>
            /\ DOMAIN planets[p].lodGroups = {"low", "mid", "high"}
            /\ VisibleLODs(planets[p]) = {planets[p].currentLOD}
            /\ SetActiveLOD(planets[p], planets[p].currentLOD) = planets[p]

C20_Witness ==
    /\ Len(planets) = 2 /\ AllReady
    /\ planets[1].currentLOD = "high" /\ VisibleLODs(planets[1]) = {"high"}
    /\ planets[2].currentLOD = "mid"


\* ---- UV output ----
\* Number of fan triangles emitted for the dual faces before face k (1-based).
FanOffset(k) == SumLen(SubSeq(dualFaces, 1, k - 1)) - 2 * (k - 1)

\* C15: uvs exists exactly when UV generation was requested; it then holds,
\* for every dual face of length n in dualFaces order, the n - 2 fan
\* triangles (first vertex, vertex i, vertex i + 1), i = 1 .. n - 2, each of
\* three UV pairs.
C15_UvsFanTriangles ==
    /\ uvs.present => (uv /\ pc = "done")
    /\ (pc = "done") =>
          /\ uvs.present <=> uv
          /\ uv =>
              /\ Len(uvs.tris) = SumLen(dualFaces) - 2 * Len(dualFaces)
              /\ \A k \in 1..Len(dualFaces) :
                    \A i \in 1..(Len(dualFaces[k]) - 2) :
                        LET tri == uvs.tris[FanOffset(k) + i] IN
                        /\ Len(tri) = 3
                        /\ tri[1] = UVOf(dualVertices, dualFaces[k][1])
                        /\ tri[2] = UVOf(dualVertices, dualFaces[k][i + 1])
                        /\ tri[3] = UVOf(dualVertices, dualFaces[k][i + 2])

\* Order 2 with UVs: 12 pentagons and 30 hexagons give 12*3 + 30*4 triangles.
C15_Witness ==
    /\ pc = "done" /\ uv /\ frequency /\ order = 2
    /\ uvs.present
    /\ Len(uvs.tris) = 156


\* ---- The ring of one vertex ----
\* The primal faces with vertex v as a corner.
IncidentFaces(v) == {fi \in 0..(NumFaces - 1) : v \in FaceVertices(fi)}

\* The ring of vertex vi - 1 has just been completed by the two walks.
RingCompleted == pc = "vertex" /\ vi >= 1 /\ Len(vertexToFaces[vi]) >= 3

\* C16: the ring built for a vertex v holds every primal face incident to v
\* exactly once and no other face; its length is the degree of v, 5 at the
\* 12 vertices of the icosahedron and 6 at every other vertex.
C16_RingIsIncidentFaces ==
    RingCompleted =>
        /\ {ring[i] : i \in 1..Len(ring)} = IncidentFaces(vi - 1)
        /\ \A fi \in IncidentFaces(vi - 1) : Occurrences(ring, fi) = 1
        /\ Len(ring) = Cardinality(IncidentFaces(vi - 1))
        /\ Len(ring) = IF IsSeedVertex(vi - 1) THEN 5 ELSE 6
        /\ dualFaces[Len(dualFaces)] = ring

\* The ring of a vertex of degree 6 (order 3, not a seed vertex).
C16_Witness ==
    /\ RingCompleted /\ frequency /\ order = 3
    /\ ~IsSeedVertex(vi - 1)
    /\ Len(ring) = 6
    /\ Cardinality(IncidentFaces(vi - 1)) = 6


\* Faces a and b are two faces with a common edge, both incident to vertex v.
AdjacentAround(v, a, b) ==
    /\ a # b
    /\ a \in IncidentFaces(v) /\ b \in IncidentFaces(v)
    /\ FaceEdgeKeys(a) \cap FaceEdgeKeys(b) # {}

\* C17: in every ring, cyclically consecutive entries (the last and the
\* first included) are primal faces that share an edge and are both incident
\* to the ring's vertex, entries prepended by the backward walk included.
C17_RingCyclicallyAdjacent ==
    (RingCompleted /\ Len(ring) >= 3) =>
        \A i \in 1..Len(ring) :
            AdjacentAround(vi - 1, ring[i], ring[(i % Len(ring)) + 1])

\* What holds for every input: entries next to each other in the ring, the
\* prepended ones included, are adjacent around the vertex; the ring need
\* not close.
RingLinearlyAdjacent ==
    (pc \in {"forward", "backward"} \/ RingCompleted) =>
        \A i \in 1..(Len(ring) - 1) :
            AdjacentAround(IF pc = "vertex" THEN vi - 1 ELSE vi, ring[i], ring[i + 1])


\* ---- Termination of the walks ----
\* The vertex whose ring is being built, or has just been built.
RingVertex == IF pc = "vertex" THEN vi - 1 ELSE vi

\* C18: for every vertex the two walks end after at most deg(v) - 1
\* extension steps in total, for any index buffer, malformed ones included:
\* the ring holds one entry per step plus the start face, every entry is an
\* incident face marked visited by its step, the incident faces marked
\* visited are exactly the entries, and no face is in the ring twice.
C18_WalksBounded ==
    (pc \in {"forward", "backward"} \/ RingCompleted) =>
        LET faces == vertexToFaces[RingVertex + 1] IN
        /\ Len(ring) - 1 <= Len(faces) - 1
        /\ \A i \in 1..Len(ring) : Includes(faces, ring[i]) /\ visited[ring[i] + 1] = 1
        /\ \A i \in 1..Len(ring) : \A j \in 1..Len(ring) : ring[i] = ring[j] => i = j
        /\ {f \in 0..(NumFaces - 1) : Includes(faces, f) /\ visited[f + 1] = 1} =
               {ring[i] : i \in 1..Len(ring)}

\* An open fan of three faces walked from its middle face: one forward step,
\* one backward step, deg(v) - 1 = 2 steps in all.
C18_Witness ==
    /\ RingCompleted /\ Len(vertexToFaces[vi]) = 3
    /\ Len(ring) = 3
    /\ ring[2] = vertexToFaces[vi][1]
    /\ \E key \in EdgeKeys : Cardinality(FacesOfEdge(key)) # 2


\* C19: the constructor completes, yielding positions, indices, dualVertices
\* and dualFaces, for every order >= 0 with the frequency flag true and with
\* the frequency flag false: it never throws.
C19_ConstructorCompletes ==
    (order >= 0) =>
        /\ pc # "threw"
        /\ error = "none"


(***************************************************************************)
(* PlanetWithDecorations and GLTFModelLibrary.                             *)
(*                                                                         *)
(* An async call is a record of `tasks`; its id is its position.  The code *)
(* between two awaits runs as one step.  A call suspended at an await is   *)
(* resumed once the promise it awaits is settled, and a new frame or a     *)
(* loader callback starts only when no suspended call can be resumed.      *)
(***************************************************************************)

\* Largest number of frames that call setActiveLOD.
MaxCalls == 2

\* Number of tiles in tileData.
NumTiles == 2

\* Object.keys(this.decorations), in registration order.
DecoNames == <<"trees", "clouds">>

DecoNameSet == {DecoNames[n] : n \in 1..Len(DecoNames)}

\* The type that config.typeSelector returns for a decoration.
DecoType(name) == IF name = "trees" THEN "palm" ELSE "cloud1"

\* The paths of the entries of config.types that have one.
DecoPaths(name) == <<"./models/scene.gltf">>

PathSet == {DecoPaths(name)[k] : name \in DecoNameSet, k \in 1..1}

\* The first decoration whose types include the given type.
DecoOfType(type) == CHOOSE name \in DecoNameSet : DecoType(name) = type

TileIds == 1..NumTiles

\* The values randInt(...config.clusterSize) returns.
ClusterCounts == {1, 2}

\* config.compatibility of the two decorations.
CompatChoices ==
    { [trees  |-> [exclusive |-> FALSE, shareableWith |-> {"clouds"}],
       clouds |-> [exclusive |-> FALSE, shareableWith |-> {"clouds"}]],
      [trees  |-> [exclusive |-> FALSE, shareableWith |-> {"cloud1"}],
       clouds |-> [exclusive |-> TRUE,  shareableWith |-> {}]],
      [trees  |-> [exclusive |-> TRUE,  shareableWith |-> {}],
       clouds |-> [exclusive |-> FALSE, shareableWith |-> {"palm"}]] }

\* What a generation pass draws: whether a step of it throws, the tiles that
\* pass the height, type and density tests, and the size of each cluster.
PassChoices ==
    [throws : BOOLEAN, picked : SUBSET TileIds, sizes : [TileIds -> ClusterCounts]]

\* The planet after the Planet constructor and both registerDecoration calls.
NewDecoratedPlanet(compat) ==
    [planet       |-> [radius |-> 1, currentLOD |-> "low",
                       lodGroups |-> [n \in {"low", "mid", "high"} |->
                                         [visible |-> n = "low"]]],
     compat       |-> compat,
     groupVisible |-> [name \in DecoNameSet |-> FALSE],
     generated    |-> [name \in DecoNameSet |-> FALSE],
     generating   |-> [name \in DecoNameSet |-> 0],
     passes       |-> [name \in DecoNameSet |-> 0],
     instances    |-> [name \in DecoNameSet |-> 0],
     tiles        |-> [t \in TileIds |-> {}],
     cache        |-> [path \in PathSet |-> [state |-> "none", meshMap |-> 0]],
     loaderCalls  |-> [path \in PathSet |-> 0],
     meshMaps     |-> 0]

\* A call frame of setActiveLOD or generateDecoration.
NewTask(kind, arg) ==
    [kind |-> kind, arg |-> arg, pc |-> "start", i |-> 1, wait |-> 0,
     got |-> 0, outcome |-> "none", resolved |-> FALSE]

\* _canShareTile(tile, name, type), tileTypes being tile.decorationTypes
CanShareTile(compat, tileTypes, name, type) ==
    IF compat[name].exclusive /\ tileTypes # {} THEN FALSE
    ELSE \A existingType \in tileTypes :
            ~(/\ existingType \notin compat[name].shareableWith
              /\ type \notin compat[DecoOfType(existingType)].shareableWith)

RECURSIVE SumSizes(_, _)
SumSizes(sizes, placed) ==
    IF placed = {} THEN 0
    ELSE LET t == CHOOSE t \in placed : TRUE
         IN  sizes[t] + SumSizes(sizes, placed \ {t})

\* The end of generateDecoration without the finally block.
Finally_NoCleanup(st, id, outcome) ==
    [st EXCEPT !.tasks[id].outcome = outcome,
               !.tasks[id].pc = "done"]

\* finally { resolveGeneration(); delete this.generating[name]; }
Finally(st, id, outcome) ==
    [st EXCEPT !.deco.generating[st.tasks[id].arg] = 0,
               !.tasks[id].resolved = TRUE,
               !.tasks[id].outcome = outcome,
               !.tasks[id].pc = "done"]

\* The rest of the try block after the models are loaded: the procedural
\* meshes, the placement loop over tileData and this.generated[name] = true.
GenerationBody(st, id, ch) ==
    LET name == st.tasks[id].arg
        type == DecoType(name)
        placed == {t \in ch.picked :
                      CanShareTile(st.deco.compat, st.deco.tiles[t], name, type)}
    IN  IF ch.throws THEN Finally(st, id, "failed")
        ELSE Finally([st EXCEPT
                 !.deco.tiles = [t \in TileIds |->
                                    IF t \in placed THEN @[t] \cup {type} ELSE @[t]],
                 !.deco.instances[name] = @ + SumSizes(ch.sizes, placed),
                 !.deco.generated[name] = TRUE,
                 !.deco.passes[name] = @ + 1], id, "generated")


\* load without the lookup of the cached loading promise.
LibraryLoad_NoPromiseLookup(d, path) ==
    IF d.cache[path].state # "loaded"
    THEN [d EXCEPT !.cache[path].state = "loading", !.loaderCalls[path] = @ + 1]
    ELSE d

\* GLTFModelLibrary.load(path) up to the promise it returns: the loader is
\* invoked only if the cache holds neither a result nor a promise.
LibraryLoad(d, path) ==
    IF d.cache[path].state = "none"
    THEN [d EXCEPT !.cache[path].state = "loading", !.loaderCalls[path] = @ + 1]
    ELSE d

\* The loop over config.types from entry st.tasks[id].i on, up to the next
\* await this.modelLibrary.load(path), or to the end of the call.
LoadEntries(st, id, ch) ==
    LET t == st.tasks[id] IN
    IF t.i > Len(DecoPaths(t.arg)) THEN GenerationBody(st, id, ch)
    ELSE [st EXCEPT !.deco = LibraryLoad(@, DecoPaths(t.arg)[t.i]),
                    !.tasks[id].pc = "awaitLoad"]

\* generateDecoration without the test of this.generating[name].
GenerateDecoration_NoInFlightTest(st, name, ch) ==
    LET id == Len(st.tasks) + 1
        frame == NewTask("generateDecoration", name)
    IN  IF st.deco.generated[name]
        THEN [st EXCEPT !.tasks = Append(@, [frame EXCEPT !.pc = "done",
                                                          !.outcome = "skipped"])]
        ELSE LoadEntries([deco  |-> [st.deco EXCEPT !.generating[name] = id],
                          tasks |-> Append(st.tasks, frame)], id, ch)

\* generateDecoration(name) up to its first await or to its end; the call
\* frame is appended to the tasks.
GenerateDecoration(st, name, ch) ==
    LET id == Len(st.tasks) + 1
        frame == NewTask("generateDecoration", name)
    IN  IF st.deco.generated[name]
        THEN [st EXCEPT !.tasks = Append(@, [frame EXCEPT !.pc = "done",
                                                          !.outcome = "skipped"])]
        ELSE IF st.deco.generating[name] # 0
        THEN [st EXCEPT !.tasks = Append(@, [frame EXCEPT
                                      !.pc = "awaitGenerating",
                                      !.wait = st.deco.generating[name]])]
        ELSE LoadEntries([deco  |-> [st.deco EXCEPT !.generating[name] = id],
                          tasks |-> Append(st.tasks, frame)], id, ch)

\* The loop of setActiveLOD over the decoration names from st.tasks[id].i
\* on, up to the next await this.generateDecoration(name) or to its end.
RECURSIVE DecorationLoop(_, _, _)
DecorationLoop(st, id, ch) ==
    LET t == st.tasks[id] IN
    IF t.i > Len(DecoNames) THEN [st EXCEPT !.tasks[id].pc = "done"]
    ELSE IF t.arg = "high"
    THEN [GenerateDecoration(st, DecoNames[t.i], ch) EXCEPT
             !.tasks[id].pc = "awaitGenerate",
             !.tasks[id].wait = Len(st.tasks) + 1]
    ELSE DecorationLoop([st EXCEPT !.deco.groupVisible[DecoNames[t.i]] = FALSE,
                                   !.tasks[id].i = t.i + 1], id, ch)

\* The promise a suspended call awaits is settled.
Runnable(d, ts, id) ==
    LET t == ts[id] IN
    \/ t.pc = "awaitSuper"
    \/ t.pc = "awaitGenerate" /\ ts[t.wait].pc = "done"
    \/ t.pc = "awaitGenerating" /\ ts[t.wait].resolved
    \/ t.pc = "awaitLoad"
          /\ d.cache[DecoPaths(t.arg)[t.i]].state \in {"loaded", "failed"}

\* The call resumes after its await and runs to its next await or its end.
ResumeTask(st, id, ch) ==
    LET t == st.tasks[id] IN
    CASE t.pc = "awaitSuper" -> DecorationLoop(st, id, ch)
      [] t.pc = "awaitGenerate" ->
            DecorationLoop([st EXCEPT !.deco.groupVisible[DecoNames[t.i]] = TRUE,
                                      !.tasks[id].i = t.i + 1], id, ch)
      [] t.pc = "awaitGenerating" ->
            [st EXCEPT !.tasks[id].pc = "done", !.tasks[id].outcome = "waited"]
      [] t.pc = "awaitLoad" ->
            IF st.deco.cache[DecoPaths(t.arg)[t.i]].state = "failed"
            THEN Finally(st, id, "failed")
            ELSE LoadEntries([st EXCEPT
                     !.tasks[id].got = st.deco.cache[DecoPaths(t.arg)[t.i]].meshMap,
                     !.tasks[id].i = t.i + 1], id, ch)

InitDecorations ==
    /\ order = 0
    /\ frequency = TRUE
    /\ uv = FALSE
    /\ radius = 1
    /\ pc = "idle"
    /\ error = "none"
    /\ rawIndices = <<>>
    /\ remap = <<>>
    /\ positions = <<>>
    /\ indices = <<>>
    /\ dualVertices = <<>>
    /\ vertexToFaces = <<>>
    /\ faceNeighbors = <<>>
    /\ vi = 0
    /\ visited = <<>>
    /\ ring = <<>>
    /\ current = 0
    /\ dualFaces = <<>>
    /\ uvs = NoUvs
    /\ heap = <<>>
    /\ planets = <<>>
    /\ \E compat \in CompatChoices : deco = NewDecoratedPlanet(compat)
    /\ tasks = <<>>
    /\ cluster = <<>>
    /\ camera = <<>>

NoneRunnable == \A id \in 1..Len(tasks) : ~Runnable(deco, tasks, id)

NumCalls == Cardinality({id \in 1..Len(tasks) : tasks[id].kind = "setActiveLOD"})

\* A frame: updateLODdistanceToCamera calls setActiveLOD(lodName), which runs
\* super.setActiveLOD(lodName) and suspends at its await.
FrameSetActiveLOD ==
    /\ NoneRunnable
    /\ NumCalls < MaxCalls
    /\ \E dist \in {5, 15, 30} :
          LET lodName == LODForDistance(deco.planet, dist) IN
          /\ deco' = [deco EXCEPT !.planet = SetActiveLOD(@, lodName)]
          /\ tasks' = Append(tasks, [NewTask("setActiveLOD", lodName) EXCEPT
                                        !.pc = "awaitSuper"])
    /\ UNCHANGED <<heap, planets, hexVars, cluster, camera>>

\* The draws the step of a call can make: only a step that resumes
\* generateDecoration after a load, or that calls it for a decoration without
\* model files, reaches the placement loop.
DrawsOf(ts, id) ==
    IF \/ ts[id].pc = "awaitLoad"
       \/ \E name \in DecoNameSet : DecoPaths(name) = <<>>
    THEN PassChoices
    ELSE {[throws |-> FALSE, picked |-> {}, sizes |-> [t \in TileIds |-> 1]]}

\* A suspended call whose promise is settled runs to its next await.
Resume ==
    /\ \E id \in 1..Len(tasks) : \E ch \in DrawsOf(tasks, id) :
          /\ Runnable(deco, tasks, id)
          /\ \E st \in {ResumeTask([deco |-> deco, tasks |-> tasks], id, ch)} :
                /\ deco' = st.deco
                /\ tasks' = st.tasks
    /\ UNCHANGED <<heap, planets, hexVars, cluster, camera>>

\* The loader's onLoad callback: the mesh map is built, cached and the
\* loading promise resolved with it.
LoadSucceeds ==
    /\ NoneRunnable
    /\ \E path \in PathSet :
          /\ deco.cache[path].state = "loading"
          /\ deco' = [deco EXCEPT !.meshMaps = @ + 1,
                                  !.cache[path] = [state |-> "loaded",
                                                   meshMap |-> deco.meshMaps + 1]]
    /\ UNCHANGED <<heap, planets, hexVars, tasks, cluster, camera>>

\* The loader's onError callback: the loading promise is rejected and stays
\* in the cache.
LoadFails ==
    /\ NoneRunnable
    /\ \E path \in PathSet :
          /\ deco.cache[path].state = "loading"
          /\ deco' = [deco EXCEPT !.cache[path].state = "failed"]
    /\ UNCHANGED <<heap, planets, hexVars, tasks, cluster, camera>>

NextDecorations ==
    \/ FrameSetActiveLOD
    \/ Resume
    \/ LoadSucceeds
    \/ LoadFails

SpecDecorations == InitDecorations /\ [][NextDecorations]_vars


\* C21: a decoration group is visible only while currentLOD is 'high',
\* whatever the interleaving of the per-frame setActiveLOD calls with the
\* pending model loads.
C21_GroupVisibleOnlyWhileHigh ==
    \A name \in DecoNameSet :
        deco.groupVisible[name] => deco.planet.currentLOD = "high"


\* The generateDecoration(name) calls whose generation is under way.
InFlight(name) ==
    {id \in 1..Len(tasks) : /\ tasks[id].kind = "generateDecoration"
                            /\ tasks[id].arg = name
                            /\ tasks[id].pc = "awaitLoad"}

\* C22: for each decoration name at most one generation is in flight at a
\* time and the generation body completes successfully at most once: a call
\* made during a generation waits for that generation, and a call made after
\* success places nothing.
C22_OneGenerationPerName ==
    \A name \in DecoNameSet :
        /\ Cardinality(InFlight(name)) <= 1
        /\ InFlight(name) \subseteq {deco.generating[name]}
        /\ deco.passes[name] <= 1
        /\ deco.generated[name] <=> deco.passes[name] = 1
        /\ \A id \in 1..Len(tasks) :
              /\ tasks[id].kind = "generateDecoration"
              /\ tasks[id].arg = name
              /\ tasks[id].pc = "awaitGenerating"
              => /\ tasks[tasks[id].wait].kind = "generateDecoration"
                 /\ tasks[tasks[id].wait].arg = name
                 /\ tasks[id].wait < id
                 /\ tasks[tasks[id].wait].pc = "done" \/ tasks[id].wait \in InFlight(name)

\* A generation has succeeded, a call made during it has waited for it, and
\* the placement ran once.
C22_Witness ==
    \E name \in DecoNameSet : \E a, b \in 1..Len(tasks) :
        /\ tasks[a].arg = name /\ tasks[a].outcome = "generated"
        /\ tasks[b].arg = name /\ tasks[b].outcome = "waited"
        /\ tasks[b].wait = a
        /\ deco.passes[name] = 1


\* The mesh maps that load(path) has handed to its callers so far.
Received(path) ==
    {tasks[id].got : id \in {n \in 1..Len(tasks) :
                                /\ tasks[n].kind = "generateDecoration"
                                /\ tasks[n].got # 0
                                /\ path \in {DecoPaths(tasks[n].arg)[k] :
                                               k \in 1..Len(DecoPaths(tasks[n].arg))}}}

FailsNow(id) ==
    /\ tasks'[id].kind = "generateDecoration"
    /\ tasks'[id].outcome = "failed"
    /\ id <= Len(tasks) => tasks[id].outcome = "none"

\* An earlier generateDecoration(name) call has failed.
HasFailed(name) ==
    \E f \in 1..Len(tasks) : /\ tasks[f].kind = "generateDecoration"
                             /\ tasks[f].arg = name
                             /\ tasks[f].outcome = "failed"

\* C24: when a step of generateDecoration(name) throws or a model load is
\* rejected, the call still ends with its promise resolved, generating[name]
\* is removed, generated[name] stays false and every call waiting on the
\* generation can resume; a later generateDecoration(name) call attempts the
\* generation again.
C24_FailureReleasesAndAllowsRetry ==
    [][\A id \in 1..Len(tasks') :
          /\ FailsNow(id) =>
                /\ tasks'[id].pc = "done"
                /\ tasks'[id].resolved
                /\ deco'.generating[tasks'[id].arg] = 0
                /\ ~deco'.generated[tasks'[id].arg]
                /\ \A w \in 1..Len(tasks') :
                      tasks'[w].pc = "awaitGenerating" /\ tasks'[w].wait = id
                      => Runnable(deco', tasks', w)
          /\ ( /\ id > Len(tasks)
               /\ tasks'[id].kind = "generateDecoration"
               /\ HasFailed(tasks'[id].arg)
               /\ ~deco.generated[tasks'[id].arg]
               /\ deco.generating[tasks'[id].arg] = 0 )
             => /\ tasks'[id].outcome \in {"none", "failed", "generated"}
                /\ tasks'[id].outcome = "none" =>
                      /\ tasks'[id].pc = "awaitLoad"
                      /\ deco'.generating[tasks'[id].arg] = id
      ]_vars

\* A generation has failed and a later call is attempting it again.
C24_Witness ==
    \E name \in DecoNameSet : \E f, r \in 1..Len(tasks) :
        /\ tasks[f].kind = "generateDecoration" /\ tasks[f].arg = name
        /\ tasks[f].outcome = "failed" /\ tasks[f].pc = "done"
        /\ f < r
        /\ tasks[r].kind = "generateDecoration" /\ tasks[r].arg = name
        /\ deco.generating[name] = r
        /\ ~deco.generated[name]

\* A call that waited on a generation that failed has resumed.
WaiterOfFailureReleased ==
    \E f, w \in 1..Len(tasks) :
        /\ tasks[f].outcome = "failed"
        /\ tasks[w].outcome = "waited" /\ tasks[w].wait = f


\* C25: a tile carrying a type of a decoration registered with
\* compatibility.exclusive carries no type of any other decoration, whichever
\* of the two was generated first.
C25_ExclusiveTilesUnshared ==
    \A t \in TileIds : \A name \in DecoNameSet :
        deco.compat[name].exclusive /\ DecoType(name) \in deco.tiles[t]
        => deco.tiles[t] \subseteq {DecoType(name)}


(***************************************************************************)
(* The instanced meshes filled by the placement loops: one mesh of one     *)
(* decoration part (PlanetWithDecorations._addCluster) or one trunk mesh   *)
(* (PlanetWithTrees.addTreeCluster), followed cluster by cluster.          *)
(***************************************************************************)

\* new THREE.InstancedMesh(geometry, material, 20000)
Capacity == 20000

\* The placement loop is followed until the mesh holds this many instances;
\* the tiles of tileData (31,506 for the earth of solarSystem.js) allow more.
MaxInstances == 20010

\* The values of randInt(...clusterSize) for clusterSize: [4, 8].
ClusterSizes == 4..8

\* A mesh after _createMultiPartInstance or generateTrees: count = 0.
\* writes is one more than the highest index given to setMatrixAt.
NewInstancedMesh(cls) == [cls |-> cls, count |-> 0, writes |-> 0]

InitCluster ==
    /\ order = 0
    /\ frequency = TRUE
    /\ uv = FALSE
    /\ radius = 1
    /\ pc = "idle"
    /\ error = "none"
    /\ rawIndices = <<>>
    /\ remap = <<>>
    /\ positions = <<>>
    /\ indices = <<>>
    /\ dualVertices = <<>>
    /\ vertexToFaces = <<>>
    /\ faceNeighbors = <<>>
    /\ vi = 0
    /\ visited = <<>>
    /\ ring = <<>>
    /\ current = 0
    /\ dualFaces = <<>>
    /\ uvs = NoUvs
    /\ heap = <<>>
    /\ planets = <<>>
    /\ deco = <<>>
    /\ tasks = <<>>
    /\ \E cls \in {"decorations", "trees"} : cluster = NewInstancedMesh(cls)
    /\ camera = <<>>

\* _addCluster: for (i < count) { index = part.instancedMesh.count++;
\* part.instancedMesh.setMatrixAt(index, transform) }
AddCluster ==
    /\ cluster.cls = "decorations"
    /\ cluster.count < MaxInstances
    /\ \E count \in ClusterSizes :
          cluster' = [cluster EXCEPT !.count = @ + count,
                                     !.writes = Max(@, cluster.count + count)]
    /\ UNCHANGED <<heap, planets, hexVars, deco, tasks, camera>>

\* addTreeCluster: for (i < count) { if (trunk.count >= trunk.instanceMatrix.count)
\* break; ... trunk.setMatrixAt(trunk.count++, matrix) }
AddTreeCluster ==
    /\ cluster.cls = "trees"
    /\ cluster.count < MaxInstances
    /\ \E count \in ClusterSizes :
          LET added == Min(count, Max(Capacity - cluster.count, 0)) IN
          cluster' = [cluster EXCEPT !.count = @ + added,
                                     !.writes = Max(@, cluster.count + added)]
    /\ UNCHANGED <<heap, planets, hexVars, deco, tasks, camera>>

NextCluster ==
    \/ AddCluster
    \/ AddTreeCluster

SpecCluster == InitCluster /\ [][NextCluster]_vars

\* C26: the instance count of a decoration part's instanced mesh never
\* exceeds the allocated capacity and no matrix is written at an index at or
\* beyond the capacity.
C26_CountWithinCapacity ==
    cluster.cls = "decorations" =>
        /\ cluster.count <= Capacity
        /\ cluster.writes <= Capacity

\* The guard of addTreeCluster keeps the trunk mesh within its capacity.
TreeCountWithinCapacity ==
    cluster.cls = "trees" =>
        /\ cluster.count <= Capacity
        /\ cluster.writes <= Capacity


(***************************************************************************)
(* CameraController: the mode, the focus cycle and the keys.               *)
(*                                                                         *)
(* focusTarget is <<>> for null, <<"vector">> for the Vector3 of           *)
(* startState.orbitTarget and <<"object", k>> for focusObjects[k - 1].     *)
(***************************************************************************)

\* Largest length of options.focusObjects.
MaxFocusObjects == 2

\* The key codes pressed: toggleKey, focusKey and a key of keyMap.forward.
KeyCodes == {"Tab", "KeyF", "KeyW"}

\* focusOrFlightOn(target, { mode, returnToStart })
FocusOrFlightOn(c, target, mode, returnToStart) ==
    IF target = <<>> THEN c
    ELSE [c EXCEPT !.mode = mode, !.focusTarget = target,
                   !.returningToStart = returnToStart, !.transition = TRUE]

\* focusOn(target, returnToStart)
FocusOn(c, target, returnToStart) == FocusOrFlightOn(c, target, "ORBIT", returnToStart)

\* flightOn(target)
FlightOn(c, target) == FocusOrFlightOn(c, target, "FLIGHT", FALSE)

\* returnToStart(): this.focusOn(this.startState.orbitTarget, true)
ReturnToStart(c) == FocusOn(c, <<"vector">>, TRUE)

\* handleModeToggle()
HandleModeToggle(c) ==
    CASE c.mode = "ORBIT" ->
            IF c.focusTarget # <<>> THEN FlightOn(c, c.focusTarget)
            ELSE [c EXCEPT !.mode = "FPS"]
      [] c.mode = "FLIGHT" ->
            IF c.focusTarget # <<>>
            THEN FocusOn([c EXCEPT !.mode = "ORBIT"], c.focusTarget, FALSE)
            ELSE [c EXCEPT !.mode = "ORBIT"]
      [] c.mode = "FPS" -> ReturnToStart([c EXCEPT !.mode = "ORBIT"])

\* The focus cycling of onKeyDown.
CycleFocus(c) ==
    IF c.numObjects = 0 THEN c
    ELSE LET next == (c.focusIndex + 1) % (c.numObjects + 1)
             stepped == [c EXCEPT !.focusIndex = next]
         IN  IF next < c.numObjects
             THEN FocusOn(stepped, <<"object", next + 1>>, FALSE)
             ELSE ReturnToStart([stepped EXCEPT !.returningToStart = TRUE])

\* onKeyDown(e) for e.code = code
OnKeyDown(c, code) ==
    CASE code = "KeyW" ->
            [c EXCEPT !.moveForward = TRUE,
                      !.orbitUp = IF c.mode = "ORBIT" THEN TRUE ELSE @,
                      !.flightForward = IF c.mode = "FLIGHT" THEN TRUE ELSE @]
      [] code = "KeyF" -> [CycleFocus(c) EXCEPT !.focusPressed = TRUE]
      [] code = "Tab" -> HandleModeToggle(c)

\* onKeyUp(e) for e.code = code
OnKeyUp(c, code) ==
    IF code = "KeyW"
    THEN [c EXCEPT !.moveForward = FALSE, !.orbitUp = FALSE, !.flightForward = FALSE]
    ELSE c

\* new CameraController(camera, domElement, { mode, focusObjects }): the
\* constructor ends with this.returnToStart().  focusPressed records whether
\* the focus key was ever pressed.
NewCameraController(mode, numObjects) ==
    ReturnToStart([mode |-> mode, numObjects |-> numObjects, focusIndex |-> 0 - 1,
                   focusTarget |-> <<>>, transition |-> FALSE,
                   returningToStart |-> FALSE, moveForward |-> FALSE,
                   orbitUp |-> FALSE, flightForward |-> FALSE,
                   focusPressed |-> FALSE])

InitCamera ==
    /\ order = 0
    /\ frequency = TRUE
    /\ uv = FALSE
    /\ radius = 1
    /\ pc = "idle"
    /\ error = "none"
    /\ rawIndices = <<>>
    /\ remap = <<>>
    /\ positions = <<>>
    /\ indices = <<>>
    /\ dualVertices = <<>>
    /\ vertexToFaces = <<>>
    /\ faceNeighbors = <<>>
    /\ vi = 0
    /\ visited = <<>>
    /\ ring = <<>>
    /\ current = 0
    /\ dualFaces = <<>>
    /\ uvs = NoUvs
    /\ heap = <<>>
    /\ planets = <<>>
    /\ deco = <<>>
    /\ tasks = <<>>
    /\ cluster = <<>>
    /\ \E mode \in {"ORBIT", "FPS", "FLIGHT"} : \E numObjects \in 0..MaxFocusObjects :
          camera = NewCameraController(mode, numObjects)

KeyDown ==
    /\ \E code \in KeyCodes : camera' = OnKeyDown(camera, code)
    /\ UNCHANGED <<heap, planets, hexVars, deco, tasks, cluster>>

KeyUp ==
    /\ \E code \in KeyCodes : camera' = OnKeyUp(camera, code)
    /\ UNCHANGED <<heap, planets, hexVars, deco, tasks, cluster>>

\* updateTransition(deltaTime) with t >= 1: this.transition = null
TransitionEnds ==
    /\ camera.transition
    /\ camera' = [camera EXCEPT !.transition = FALSE]
    /\ UNCHANGED <<heap, planets, hexVars, deco, tasks, cluster>>

NextCamera ==
    \/ KeyDown
    \/ KeyUp
    \/ TransitionEnds

SpecCamera == InitCamera /\ [][NextCamera]_vars

\* C27: as long as the focus key has never been pressed on a freshly
\* constructed controller, pressing the toggle key in ORBIT mode enters FPS
\* mode and pressing it in FPS mode returns to ORBIT; the toggle key does not
\* enter FLIGHT mode.
C27_ToggleWithoutFocus ==
    [][ ( /\ ~camera.focusPressed
          /\ camera' = OnKeyDown(camera, "Tab") )
        => /\ camera.mode = "ORBIT" => camera'.mode = "FPS"
           /\ camera.mode = "FPS" => camera'.mode = "ORBIT"
           /\ camera'.mode # "FLIGHT"
      ]_vars

\* FPS mode is never entered by the toggle key of this controller.
FPSNeverEntered == camera.mode # "FPS"

============================================================================
